---- MODULE Spec2Model ----
(***************************************************************************)
(* Model of the x402 client: the negotiator (X402Client.request,           *)
(* pay_and_request, auto_pay_request), the signer                          *)
(* (SimpleX402Signer.create_exact_payment and its registry lookups) and    *)
(* the data model (PaymentRequirement validation, PaymentPayload.to_header).*)
(*                                                                         *)
(* The transport (requests.Session) and the signing primitive              *)
(* (Account.sign_typed_data) are collaborators: the server's answers are   *)
(* part of the state, the signature is an opaque value.                    *)
(***************************************************************************)
EXTENDS Integers, Sequences, FiniteSets, TLC

VARIABLES
    server,        \* the remote server: its answer to an unpaid and to a paid request
    clock,         \* time.time(), in ticks of 1/Resolution second
    op,            \* the operation that ran last
    returned,      \* what it returned (a sequence of 0 or 1 value)
    raised,        \* what it raised (a sequence of 0 or 1 error)
    transportLog,  \* the session.request calls it made, in order
    signerLog,     \* the create_exact_payment calls it made, in order
    signLog,       \* the sign_typed_data calls it made, in order
    timeLog,       \* the readings of time.time() it made, in order
    payment,       \* the PaymentPayload it built (0 or 1)
    header         \* the X-PAYMENT header value it built (0 or 1)

vars == <<server, clock, op, returned, raised, transportLog, signerLog, signLog,
          timeLog, payment, header>>

(***************************************************************************)
(* Bounds of the model.                                                    *)
(***************************************************************************)
MaxAccepts == 2     \* longest accepts list a server sends
MaxClock == 3       \* last clock tick
MaxElapsed == 1     \* most ticks that pass between two reads of the clock
Resolution == 2     \* clock ticks per second

(***************************************************************************)
(* Enums (core/enums.py).  An Enum class is the map member name -> value;  *)
(* a member is a value of its own type, not a str.                         *)
(***************************************************************************)
PaymentScheme == [EXACT |-> "exact"]

PaymentNetwork ==
    [BASE_SEPOLIA     |-> "base-sepolia",
     BASE_MAINNET     |-> "base-mainnet",
     ETHEREUM_SEPOLIA |-> "ethereum-sepolia",
     ETHEREUM_MAINNET |-> "ethereum-mainnet"]

Member(enum, name) == [enum |-> enum, name |-> name]

\* Enum(value): the member with that value, if any (pydantic's enum validation).
IsEnumValue(E, v) == \E n \in DOMAIN E : E[n] = v

EnumByValue(E, enum, v) == Member(enum, CHOOSE n \in DOMAIN E : E[n] = v)

\* member.value
EnumValue(m) ==
    IF m.enum = "PaymentScheme" THEN PaymentScheme[m.name] ELSE PaymentNetwork[m.name]

(***************************************************************************)
(* Token registry (client/signer.py, KNOWN_TOKENS), keyed by the chain id  *)
(* as a string.                                                            *)
(***************************************************************************)
USDC_BASE_SEPOLIA == "0x036CbD53842c5426634e7929541eC2318f3dCF7e"
USDC_BASE_MAINNET == "0x833589fCD6eDb6E08f4c7C32D4f71b54bdA02913"
USDC_FUJI == "0x5425890298aed601595a70AB815c96711a31Bc65"
USDC_AVALANCHE == "0xB97EF9Ef8734C71904D8002F8b6Bc66Dd9c48a6E"

Token(address, name) ==
    [human_name |-> "usdc", address |-> address, name |-> name, decimals |-> 6,
     version |-> "2"]

KNOWN_TOKENS ==
    [c \in {"84532", "8453", "43113", "43114"} |->
        CASE c = "84532" -> <<Token(USDC_BASE_SEPOLIA, "USDC")>>
          [] c = "8453"  -> <<Token(USDC_BASE_MAINNET, "USD Coin")>>
          [] c = "43113" -> <<Token(USDC_FUJI, "USD Coin")>>
          [] c = "43114" -> <<Token(USDC_AVALANCHE, "USDC")>>]

(***************************************************************************)
(* Errors.  The code has one exception class of its own,                   *)
(* X402PaymentRequiredError(message, requirements); everything else is a   *)
(* builtin exception.                                                      *)
(***************************************************************************)
Error(type, message, detail, requirements) ==
    [type |-> type, message |-> message, detail |-> detail,
     requirements |-> requirements]

X402PaymentRequiredError(message, detail, requirements) ==
    Error("X402PaymentRequiredError", message, detail, requirements)

ValueError(message) == Error("ValueError", message, "", <<>>)
KeyError(key) == Error("KeyError", key, "", <<>>)
TypeError(message) == Error("TypeError", message, "", <<>>)

(***************************************************************************)
(* Wire requirements: the JSON values a server puts in "accepts".  A JSON  *)
(* object is given by its values and the set of required keys it lacks;    *)
(* an item that is no JSON object at all has isObject = FALSE.             *)
(***************************************************************************)
RequiredKeys ==
    {"scheme", "network", "maxAmountRequired", "resource", "description", "mimeType",
     "payTo", "maxTimeoutSeconds", "asset"}

WireRequirement(scheme, network, amount, payTo, timeout, asset, missing) ==
    [isObject |-> TRUE, scheme |-> scheme, network |-> network,
     maxAmountRequired |-> amount, resource |-> "/premium", description |-> "d",
     mimeType |-> "application/json", payTo |-> payTo, maxTimeoutSeconds |-> timeout,
     asset |-> asset, missing |-> missing]

NotAnObject ==
    [WireRequirement("", "", "", "", 0, "", {}) EXCEPT !.isObject = FALSE]

\* PaymentRequirement.model_validate(req): every required key present (by its
\* wire alias), scheme and network values of their enums; max_timeout_seconds
\* is any int.
model_validate(req) ==
    IF ~req.isObject THEN [ok |-> FALSE, value |-> <<>>]
    ELSE IF req.missing \cap RequiredKeys # {} THEN [ok |-> FALSE, value |-> <<>>]
    ELSE IF ~IsEnumValue(PaymentScheme, req.scheme) THEN [ok |-> FALSE, value |-> <<>>]
    ELSE IF ~IsEnumValue(PaymentNetwork, req.network) THEN [ok |-> FALSE, value |-> <<>>]
    ELSE [ok |-> TRUE,
          value |-> <<[scheme |-> EnumByValue(PaymentScheme, "PaymentScheme", req.scheme),
                       network |-> EnumByValue(PaymentNetwork, "PaymentNetwork", req.network),
                       max_amount_required |-> req.maxAmountRequired,
                       resource |-> req.resource,
                       description |-> req.description,
                       mime_type |-> req.mimeType,
                       pay_to |-> req.payTo,
                       max_timeout_seconds |-> req.maxTimeoutSeconds,
                       asset |-> req.asset]>>]

(***************************************************************************)
(* 402 bodies.  shape is what response.json() gives: "not-json" (it        *)
(* raises), "array"/"string"/"number"/"null" (a JSON value that is no      *)
(* object) or "object"; accepts is the value under the key "accepts".      *)
(***************************************************************************)
Accepts(kind, items) == [kind |-> kind, items |-> items]

Body(shape, hasVersion, accepts) ==
    [shape |-> shape, hasVersion |-> hasVersion, accepts |-> accepts]

NoBody == Body("not-json", FALSE, Accepts("missing", <<>>))

Response(status_code, body) == [status_code |-> status_code, body |-> body]

\* The X-PAYMENT header of a request: absent, or a value.
NoHeaders == <<>>

\* session.request(method, url, **kwargs): the server answers a request that
\* carries X-PAYMENT with its paid response, any other with its first one.
Transport(srv, headers) == IF headers = NoHeaders THEN srv.first ELSE srv.paid

(***************************************************************************)
(* What a call did: the value returned or the error raised, and the calls  *)
(* it made to the collaborators.                                           *)
(***************************************************************************)
Quiet ==
    [returned |-> <<>>, raised |-> <<>>, transportLog |-> <<>>, signerLog |-> <<>>,
     signLog |-> <<>>, timeLog |-> <<>>, payment |-> <<>>, header |-> <<>>]

Return(e, v) == [e EXCEPT !.returned = <<v>>]
Raise(e, err) == [e EXCEPT !.raised = <<err>>]

(***************************************************************************)
(* X402Client.request (client/base.py)                                     *)
(***************************************************************************)
\* A client that takes every error status for a payment request.
AnyErrorStatus(status_code) == status_code >= 400

PaymentRequiredStatus(status_code) == status_code = 402

\* for req in data["accepts"]: a list gives its items, a str its characters
\* and a dict its keys (strings, here NotAnObject items).
Iterable(accepts) == accepts.kind \in {"list", "string", "object"}

\* The try block of request: response.json(), data["accepts"], the list
\* comprehension over model_validate, then the raise of the parsed list; the
\* handler catches ValueError (JSONDecodeError and pydantic's ValidationError
\* are ValueErrors) and KeyError, nothing else.
ParseRequirements(body) ==
    IF body.shape = "not-json"
    THEN [raised |-> X402PaymentRequiredError("Invalid 402 response", "JSONDecodeError", <<>>)]
    ELSE IF body.shape # "object"
    THEN [raised |-> TypeError("data[\"accepts\"]: not a mapping")]
    ELSE IF body.accepts.kind = "missing"
    THEN [raised |-> X402PaymentRequiredError("Invalid 402 response", "KeyError", <<>>)]
    ELSE IF ~Iterable(body.accepts)
    THEN [raised |-> TypeError("data[\"accepts\"]: not iterable")]
    ELSE LET items == body.accepts.items
             parsed == [i \in 1..Len(items) |-> model_validate(items[i])]
         IN  IF \E i \in 1..Len(items) : ~parsed[i].ok
             THEN [raised |-> X402PaymentRequiredError("Invalid 402 response",
                                                      "ValidationError", <<>>)]
             ELSE [raised |-> X402PaymentRequiredError("Payment required", "",
                                [i \in 1..Len(items) |-> parsed[i].value[1]])]

request(srv, headers) ==
    LET response == Transport(srv, headers)
        sent == [Quiet EXCEPT !.transportLog = <<headers>>]
    IN  IF PaymentRequiredStatus(response.status_code)
        THEN Raise(sent, ParseRequirements(response.body).raised)
        ELSE Return(sent, response)

(***************************************************************************)
(* PaymentPayload.to_header (core/models.py)                               *)
(***************************************************************************)
PaymentPayload(x402_version, scheme, network, payload) ==
    [x402_version |-> x402_version, scheme |-> scheme, network |-> network,
     payload |-> payload]

\* One entry of the dict handed to json.dumps: the key, the Python type of the
\* value and the value.
Entry(key, pytype, value) == [key |-> key, pytype |-> pytype, value |-> value]

\* The types json's default encoder serializes.  PaymentScheme and
\* PaymentNetwork derive from Enum alone (not from str), and no default= hook
\* is given to json.dumps.
JsonEncodable(pytype) ==
    pytype \in {"dict", "list", "str", "int", "float", "bool", "NoneType"}

\* json.dumps(data, separators=(',', ':')): the document, its keys in the
\* dict's order, or TypeError at the first value it cannot encode.
json_dumps(data) ==
    IF \E i \in 1..Len(data) : ~JsonEncodable(data[i].pytype)
    THEN LET i == CHOOSE j \in 1..Len(data) :
                      /\ ~JsonEncodable(data[j].pytype)
                      /\ \A k \in 1..(j - 1) : JsonEncodable(data[k].pytype)
         IN  [ok |-> FALSE, value |-> <<>>,
              raised |-> TypeError("Object of type " \o data[i].pytype
                                   \o " is not JSON serializable")]
    ELSE [ok |-> TRUE,
          value |-> [i \in 1..Len(data) |-> [key |-> data[i].key, value |-> data[i].value]],
          raised |-> TypeError("")]

\* json.loads of such a document: the map from its keys to its values.
json_loads(text) ==
    [k \in {text[i].key : i \in 1..Len(text)} |->
        (text[CHOOSE i \in 1..Len(text) : text[i].key = k]).value]

\* base64.b64encode(json_str.encode()).decode() and its inverse.
b64encode(text) == [base64 |-> text]
b64decode(h) == h.base64

to_header(p) ==
    LET data == <<Entry("x402Version", "int", p.x402_version),
                  Entry("scheme", p.scheme.enum, p.scheme),
                  Entry("network", p.network.enum, p.network),
                  Entry("payload", "dict", p.payload)>>
        json_str == json_dumps(data)
    IN  IF json_str.ok
        THEN [ok |-> TRUE, value |-> b64encode(json_str.value), raised |-> json_str.raised]
        ELSE [ok |-> FALSE, value |-> b64encode(<<>>), raised |-> json_str.raised]

(***************************************************************************)
(* SimpleX402Signer (client/signer.py)                                     *)
(***************************************************************************)
Address == "0xPayer"     \* self.account.address

get_chain_id(network) ==
    CASE network = Member("PaymentNetwork", "ETHEREUM_MAINNET") -> 1
      [] network = Member("PaymentNetwork", "ETHEREUM_SEPOLIA") -> 11155111
      [] network = Member("PaymentNetwork", "BASE_MAINNET") -> 8453
      [] network = Member("PaymentNetwork", "BASE_SEPOLIA") -> 8453
      [] OTHER -> 1

\* for token in KNOWN_TOKENS[chain_id]: the first token with the address;
\* KNOWN_TOKENS[chain_id] itself raises KeyError for a chain id that is no key.
TokenField(chain_id, address, field) ==
    IF chain_id \notin DOMAIN KNOWN_TOKENS
    THEN [ok |-> FALSE, value |-> "", raised |-> KeyError(chain_id)]
    ELSE LET tokens == KNOWN_TOKENS[chain_id]
             hits == {i \in 1..Len(tokens) : tokens[i].address = address}
         IN  IF hits = {}
             THEN [ok |-> FALSE, value |-> "", raised |-> ValueError("Token not found")]
             ELSE [ok |-> TRUE,
                   value |-> tokens[CHOOSE i \in hits : \A j \in hits : i <= j][field],
                   raised |-> ValueError("")]

get_token_name(chain_id, address) == TokenField(chain_id, address, "name")
get_token_version(chain_id, address) == TokenField(chain_id, address, "version")

\* int(time.time()) for a clock reading in ticks.
IntTime(t) == t \div Resolution

\* self.account.sign_typed_data: an opaque signature (r, s, v).
sign_typed_data(domain, message) == [r |-> 1, s |-> 2, v |-> 27]

\* hex(n), for one digit below ten.
hex(n) == "0x" \o ToString(n)

\* amount is <<>> for None, <<a>> for an override; t1 and t2 are the two
\* readings of time.time(), for valid_after and for valid_before.
create_exact_payment(requirement, amount, nonce, t1, t2) ==
    LET called == [Quiet EXCEPT !.signerLog = <<[requirement |-> requirement,
                                                  amount |-> amount]>>,
                                !.timeLog = <<t1, t2>>]
        value == IF amount = <<>> THEN requirement.max_amount_required ELSE amount[1]
        valid_after == IntTime(t1) - requirement.max_timeout_seconds
        valid_before == IntTime(t2) + requirement.max_timeout_seconds
        chain_id == get_chain_id(requirement.network)
        token_name == get_token_name(ToString(chain_id), requirement.asset)
        token_version == get_token_version(ToString(chain_id), requirement.asset)
    IN  IF ~token_name.ok THEN Raise(called, token_name.raised)
        ELSE IF ~token_version.ok THEN Raise(called, token_version.raised)
        ELSE
        LET domain == [name |-> token_name.value, version |-> token_version.value,
                       chainId |-> chain_id, verifyingContract |-> requirement.asset]
            message == [from |-> Address, to |-> requirement.pay_to, value |-> value,
                        validAfter |-> valid_after, validBefore |-> valid_before,
                        nonce |-> nonce]
            signature == sign_typed_data(domain, message)
            payload == [from |-> Address, to |-> requirement.pay_to, value |-> value,
                        validAfter |-> ToString(valid_after),
                        validBefore |-> ToString(valid_before),
                        nonce |-> nonce,
                        signature |-> [r |-> hex(signature.r), s |-> hex(signature.s),
                                       v |-> signature.v]]
            built == PaymentPayload(1, requirement.scheme, requirement.network, payload)
        IN  Return([called EXCEPT !.signLog = <<[domain |-> domain, message |-> message]>>,
                                  !.payment = <<built>>],
                   built)

(***************************************************************************)
(* X402Client.pay_and_request and auto_pay_request (client/base.py)        *)
(***************************************************************************)
\* What a call did after what an earlier call did.
Then(a, b) ==
    [b EXCEPT !.transportLog = a.transportLog \o @, !.signerLog = a.signerLog \o @,
              !.signLog = a.signLog \o @]

pay_and_request(srv, requirement, amount, nonce, t1, t2) ==
    LET created == create_exact_payment(requirement, amount, nonce, t1, t2)
    IN  IF created.raised # <<>> THEN created
        ELSE
        LET encoded == to_header(created.payment[1])
        IN  IF ~encoded.ok THEN [created EXCEPT !.returned = <<>>, !.raised = <<encoded.raised>>]
            ELSE LET headers == <<encoded.value>>
                     response == Transport(srv, headers)
                 IN  [created EXCEPT !.returned = <<response>>,
                                     !.header = headers,
                                     !.transportLog = Append(@, headers)]

\* A client that pays the last option instead of the first.
SelectLast(requirements) == requirements[Len(requirements)]

\* requirement = e.requirements[0]
SelectRequirement(requirements) == requirements[1]

auto_pay_request(srv, nonce, t1, t2) ==
    LET first == request(srv, NoHeaders)
    IN  IF first.raised = <<>> THEN first
        ELSE IF first.raised[1].type # "X402PaymentRequiredError" THEN first
        ELSE LET e == first.raised[1]
             IN  IF e.requirements = <<>>
                 THEN Raise(first, ValueError("No payment options available"))
                 ELSE Then(first, pay_and_request(srv, SelectRequirement(e.requirements),
                                                  <<>>, nonce, t1, t2))

(***************************************************************************)
(* The environment: what servers send, what callers pass.                  *)
(***************************************************************************)
\* The requirement of the end-to-end example (GET /premium on base-sepolia).
Premium ==
    WireRequirement("exact", "base-sepolia", "10000", "0xAbc", 300, USDC_BASE_SEPOLIA, {})

\* The items a server puts in accepts: requirements on every network, of
\* registered and unregistered tokens, and items that do not validate.
ServerOffers ==
    {Premium,
     WireRequirement("exact", "base-mainnet", "10000", "0xDef", 300, USDC_BASE_MAINNET, {}),
     WireRequirement("exact", "base-sepolia", "20000", "0xAbc", 1, USDC_BASE_MAINNET, {}),
     WireRequirement("exact", "ethereum-mainnet", "10000", "0xAbc", 300, USDC_BASE_MAINNET, {}),
     WireRequirement("exact", "base-mainnet", "10000", "0xAbc", 300, "0xUnknownToken", {}),
     WireRequirement("exact", "base-mainnet", "10000", "0xDef", 0, USDC_BASE_MAINNET, {}),
     WireRequirement("exact", "polygon", "10000", "0xAbc", 300, USDC_BASE_MAINNET, {}),
     WireRequirement("upto", "base-mainnet", "10000", "0xAbc", 300, USDC_BASE_MAINNET, {}),
     NotAnObject,
     WireRequirement("exact", "base-mainnet", "10000", "0xAbc", 300, USDC_BASE_MAINNET,
                     {"payTo"})}

SeqsUpTo(S, n) == UNION {[1..k -> S] : k \in 0..n}

Bodies ==
    {Body("object", v, Accepts("list", items)) :
        v \in BOOLEAN, items \in SeqsUpTo(ServerOffers, MaxAccepts)}
    \cup {Body(shape, FALSE, Accepts("missing", <<>>)) :
            shape \in {"not-json", "array", "string", "number", "null", "object"}}
    \cup {Body("object", TRUE, Accepts(kind, <<>>)) :
            kind \in {"null", "number", "string", "object"}}
    \cup {Body("object", TRUE, Accepts("string", <<NotAnObject>>))}

Servers ==
    {[first |-> Response(402, b), paid |-> Response(s, NoBody)] :
        b \in Bodies, s \in {200, 402}}
    \cup {[first |-> Response(f, NoBody), paid |-> Response(s, NoBody)] :
            f \in {200, 500}, s \in {200, 402}}

\* The requirements a caller can hold: every validated wire requirement over
\* the networks, these assets and these timeouts.
PaymentRequirements ==
    {model_validate(w).value[1] :
        w \in {WireRequirement("exact", PaymentNetwork[n], "10000", "0xAbc", t, a, {}) :
                  n \in DOMAIN PaymentNetwork,
                  t \in {-1, 0, 1, 300},
                  a \in {USDC_BASE_SEPOLIA, USDC_BASE_MAINNET, "0xUnknownToken"}}}

Amounts == {<<>>, <<"5000">>}

\* secrets.token_hex(32): a draw of the system's randomness.
Nonces == {"0x" \o "11", "0x" \o "22"}

(***************************************************************************)
(* Actions: one per operation a caller can invoke.  Calls are synchronous  *)
(* and single-threaded: a call starts when no call is under way, runs to   *)
(* its return or its raise, and the caller then takes the result.          *)
(***************************************************************************)
\* No call is under way and no result is pending.
Idle ==
    /\ op = "none"
    /\ returned = <<>>
    /\ raised = <<>>
    /\ transportLog = <<>>
    /\ signerLog = <<>>
    /\ signLog = <<>>
    /\ timeLog = <<>>
    /\ payment = <<>>
    /\ header = <<>>

Record(name, e) ==
    /\ op' = name
    /\ returned' = e.returned
    /\ raised' = e.raised
    /\ transportLog' = e.transportLog
    /\ signerLog' = e.signerLog
    /\ signLog' = e.signLog
    /\ timeLog' = e.timeLog
    /\ payment' = e.payment
    /\ header' = e.header
    /\ clock' = IF e.timeLog = <<>> THEN clock ELSE e.timeLog[Len(e.timeLog)]
    /\ UNCHANGED server

Request ==
    /\ Idle
    /\ Record("request", request(server, NoHeaders))

\* The caller pays one of the requirements the server offers.
PayAndRequest ==
    LET offer == request(server, NoHeaders)
    IN  /\ Idle
        /\ offer.raised # <<>>
        /\ \E i \in 1..Len(offer.raised[1].requirements), amount \in Amounts,
              nonce \in Nonces, d \in 0..MaxElapsed :
              /\ clock + d <= MaxClock
              /\ Record("pay_and_request",
                        pay_and_request(server, offer.raised[1].requirements[i], amount,
                                        nonce, clock, clock + d))

AutoPayRequest ==
    \E nonce \in Nonces, d \in 0..MaxElapsed :
        /\ Idle
        /\ clock + d <= MaxClock
        /\ Record("auto_pay_request", auto_pay_request(server, nonce, clock, clock + d))

CreateExactPayment ==
    \E requirement \in PaymentRequirements, amount \in Amounts, nonce \in Nonces,
       d \in 0..MaxElapsed :
        /\ Idle
        /\ clock + d <= MaxClock
        /\ Record("create_exact_payment",
                  create_exact_payment(requirement, amount, nonce, clock, clock + d))

\* to_header of the payload the signer built last.
ToHeader ==
    /\ op = "create_exact_payment"
    /\ payment # <<>>
    /\ LET encoded == to_header(payment[1])
       IN  /\ op' = "to_header"
           /\ returned' = IF encoded.ok THEN <<encoded.value>> ELSE <<>>
           /\ raised' = IF encoded.ok THEN <<>> ELSE <<encoded.raised>>
           /\ header' = IF encoded.ok THEN <<encoded.value>> ELSE <<>>
           /\ UNCHANGED <<server, clock, transportLog, signerLog, signLog, timeLog,
                          payment>>

\* The caller takes the result of the call.
Done ==
    /\ op # "none"
    /\ op' = "none"
    /\ returned' = <<>>
    /\ raised' = <<>>
    /\ transportLog' = <<>>
    /\ signerLog' = <<>>
    /\ signLog' = <<>>
    /\ timeLog' = <<>>
    /\ payment' = <<>>
    /\ header' = <<>>
    /\ UNCHANGED <<server, clock>>

\* Time passes between calls.
Tick ==
    /\ Idle
    /\ clock < MaxClock
    /\ clock' = clock + 1
    /\ UNCHANGED <<server, op, returned, raised, transportLog, signerLog, signLog,
                   timeLog, payment, header>>

\* The negotiator against every server.
Init == server \in Servers /\ clock = 0 /\ Idle
Next == Request \/ PayAndRequest \/ AutoPayRequest \/ Done \/ Tick
Spec == Init /\ [][Next]_vars

\* The signer and the header codec called directly.
InitSigner == server = [first |-> Response(200, NoBody), paid |-> Response(200, NoBody)]
              /\ clock = 0 /\ Idle
NextSigner == CreateExactPayment \/ ToHeader \/ Done \/ Tick
SpecSigner == InitSigner /\ [][NextSigner]_vars

(***************************************************************************)
(* The names the specification gives the error kinds.                      *)
(***************************************************************************)
IsPaymentRequired(err) ==
    err.type = "X402PaymentRequiredError" /\ err.message = "Payment required"

IsMalformedRequirementsResponse(err) ==
    err.type = "X402PaymentRequiredError" /\ err.message = "Invalid 402 response"

NoPaymentOptions == ValueError("No payment options available")
TokenNotFound == ValueError("Token not found")

\* PaymentRequiredResponse (core/models.py): x402Version and accepts are
\* required, accepts is a list of valid PaymentRequirement.
PaymentRequiredResponse_validate(body) ==
    /\ body.shape = "object"
    /\ body.hasVersion
    /\ body.accepts.kind = "list"
    /\ \A i \in 1..Len(body.accepts.items) : model_validate(body.accepts.items[i]).ok

\* int(s) of a decimal string, over the timestamps of the model.
int(s) == CHOOSE n \in (0 - 302 - MaxClock)..(302 + MaxClock) : ToString(n) = s

\* The (chain id, asset) pair has an entry in the registry.
Registered(chain_id, asset) ==
    /\ chain_id \in DOMAIN KNOWN_TOKENS
    /\ \E i \in 1..Len(KNOWN_TOKENS[chain_id]) : KNOWN_TOKENS[chain_id][i].address = asset

Auto == op = "auto_pay_request"
FirstIs402 == server.first.status_code = 402
Offered == server.first.body.accepts.items

\* The wire fields of a requirement, as the signer received them.
SameAsWire(requirement, wire) ==
    /\ EnumValue(requirement.scheme) = wire.scheme
    /\ EnumValue(requirement.network) = wire.network
    /\ requirement.max_amount_required = wire.maxAmountRequired
    /\ requirement.pay_to = wire.payTo
    /\ requirement.max_timeout_seconds = wire.maxTimeoutSeconds
    /\ requirement.asset = wire.asset

(***************************************************************************)
(* C1.  A call of auto_pay_request issues at most two transport requests   *)
(* and invokes the signer at most once.                                    *)
(***************************************************************************)
AutoPayBounded == Auto => Len(transportLog) <= 2 /\ Len(signerLog) <= 1

\* C1: every call of auto_pay_request performs at most one retry (at most two
\* transport requests, the signer at most once), and when the server answers
\* the paid request with 402 again, the call that signed a payment returns
\* that response, with no error raised.
C1_SecondRejectionReturned ==
    /\ AutoPayBounded
    /\ (Auto /\ payment # <<>> /\ server.paid.status_code = 402)
          => /\ raised = <<>>
             /\ returned = <<server.paid>>
             /\ Len(transportLog) = 2

\* C2: an error request raises other than PaymentRequired reaches the caller
\* of auto_pay_request unchanged; MalformedRequirementsResponse in particular
\* is not turned into NoPaymentOptions.
C2_MalformedPropagates ==
    LET first == request(server, NoHeaders)
    IN  (Auto /\ first.raised # <<>> /\ ~IsPaymentRequired(first.raised[1]))
            => raised = first.raised

\* C3: on a 402, request never returns; a body that validates as a
\* PaymentRequiredResponse raises PaymentRequired with the requirements of
\* accepts, in order; any other body raises MalformedRequirementsResponse
\* with an empty requirement list.
C3_RequestOn402 ==
    (op = "request" /\ FirstIs402)
        => /\ returned = <<>>
           /\ Len(raised) = 1
           /\ IF PaymentRequiredResponse_validate(server.first.body)
              THEN /\ IsPaymentRequired(raised[1])
                   /\ Len(raised[1].requirements) = Len(Offered)
                   /\ \A i \in 1..Len(Offered) :
                          SameAsWire(raised[1].requirements[i], Offered[i])
              ELSE /\ IsMalformedRequirementsResponse(raised[1])
                   /\ raised[1].requirements = <<>>

C5_SignerOnlyAfterOffer ==
    Auto =>
        /\ (signerLog # <<>> \/ signLog # <<>>)
              => FirstIs402 /\ server.first.body.shape = "object" /\ Offered # <<>>
        /\ ~FirstIs402
              => /\ returned = <<server.first>>
                 /\ raised = <<>>
                 /\ Len(transportLog) = 1
                 /\ signerLog = <<>>
                 /\ signLog = <<>>
        /\ (FirstIs402 /\ server.first.body.shape = "object"
               /\ server.first.body.accepts.kind = "list" /\ Offered = <<>>)
              => /\ raised = <<NoPaymentOptions>>
                 /\ returned = <<>>
                 /\ signerLog = <<>>
                 /\ signLog = <<>>
                 /\ Len(transportLog) = 1

\* A 402 with an empty accepts list, refused without signing.
C5_Witness ==
    /\ Auto
    /\ FirstIs402
    /\ server.first.body = Body("object", TRUE, Accepts("list", <<>>))
    /\ raised = <<NoPaymentOptions>>
    /\ signerLog = <<>>

\* C6: when the first response is a 402 offering the one base-sepolia
\* requirement of the example, auto_pay_request resolves the token registered
\* under chain id 84532, signs from the signer's address for "10000", sends
\* one second request with the X-PAYMENT header and returns its response.
C6_PremiumEndToEnd ==
    (Auto /\ server.first = Response(402, Body("object", TRUE, Accepts("list", <<Premium>>))))
        => /\ raised = <<>>
           /\ returned = <<server.paid>>
           /\ Len(signLog) = 1
           /\ signLog[1].domain.chainId = 84532
           /\ signLog[1].domain.name = "USDC"
           /\ signLog[1].message.from = Address
           /\ signLog[1].message.value = "10000"
           /\ Len(transportLog) = 2
           /\ transportLog[1] = NoHeaders
           /\ transportLog[2] # NoHeaders

\* C7: when the (chain id, asset) pair of the requirement has no entry in the
\* registry, create_exact_payment raises TokenNotFound and nothing else,
\* without signing and without a payload.
C7_AbsentTokenNotFound ==
    (op = "create_exact_payment"
        /\ ~Registered(ToString(get_chain_id(signerLog[1].requirement.network)),
                       signerLog[1].requirement.asset))
        => /\ raised = <<TokenNotFound>>
           /\ returned = <<>>
           /\ signLog = <<>>
           /\ payment = <<>>

\* C8: the payload create_exact_payment returns has
\* validBefore - validAfter = 2 * max_timeout_seconds.
C8_WindowWidth ==
    (op = "create_exact_payment" /\ payment # <<>>)
        => int(payment[1].payload.validBefore) - int(payment[1].payload.validAfter)
              = 2 * signerLog[1].requirement.max_timeout_seconds

\* C9: for a requirement that passed validation, max_timeout_seconds is
\* positive and the payload's window brackets the time of the call:
\* validAfter <= t <= validBefore, and validAfter < validBefore.
C9_WindowBracketsCall ==
    (op = "create_exact_payment" /\ payment # <<>>)
        => /\ signerLog[1].requirement.max_timeout_seconds > 0
           /\ int(payment[1].payload.validAfter) < int(payment[1].payload.validBefore)
           /\ \A i \in 1..Len(timeLog) :
                 /\ int(payment[1].payload.validAfter) <= IntTime(timeLog[i])
                 /\ IntTime(timeLog[i]) <= int(payment[1].payload.validBefore)

\* C10: to_header of a payload the signer built succeeds, and decoding it
\* (base64, then JSON) gives exactly the keys x402Version, scheme, network and
\* payload, with the wire strings of the variants and the payload map.
C10_HeaderRoundTrip ==
    op = "to_header"
        => /\ raised = <<>>
           /\ Len(header) = 1
           /\ LET decoded == json_loads(b64decode(header[1]))
              IN  /\ DOMAIN decoded = {"x402Version", "scheme", "network", "payload"}
                  /\ decoded.x402Version = payment[1].x402_version
                  /\ decoded.scheme = EnumValue(payment[1].scheme)
                  /\ decoded.network = EnumValue(payment[1].network)
                  /\ decoded.payload = payment[1].payload

====
